---- MODULE Spec2Model ----
(***************************************************************************)
(* Loan amortization calculator (src/app.py).                              *)
(*                                                                         *)
(* The calculation block (lines 31-105) is a loop over Python floats.      *)
(* A Python float is an IEEE-754 binary number: every arithmetic result is *)
(* the exact result rounded to the nearest representable value, ties to    *)
(* the even significand.  The model keeps that rule and represents a float *)
(* as [m |-> significand, e |-> exponent], value m * 2^e, normalised so    *)
(* that 2^(MantBits-1) <= |m| < 2^MantBits (or m = 0, e = 0).  The         *)
(* significand has MantBits bits instead of the 53 of binary64, so the     *)
(* rounding effects of the code all occur, at inputs scaled accordingly    *)
(* (1 + monthly_rate = 1 needs a rate below 1.3e-13 % in binary64 and      *)
(* below about 0.3 % here).  The exponent is unbounded: none of the inputs *)
(* considered overflows or underflows.                                     *)
(***************************************************************************)
EXTENDS Integers, Sequences, FiniteSets, TLC

VARIABLES
    loan_amount,                  \* widget value, line 14
    annual_interest_rate,         \* widget value, line 15
    period_months,                \* widget value (an int), line 16
    yearly_extra_payment_percent, \* widget value, lines 19-26
    typed,                        \* what the user last typed into a widget
    monthly_rate,                 \* line 33
    monthly_payment,              \* lines 36-39, overwritten at line 63
    extra_payment_amount,         \* line 41
    balance,                      \* line 44
    schedule_data,                \* line 45, the rows appended at lines 79-86
    total_interest,               \* line 46
    months_count,                 \* line 47
    month,                        \* the loop variable of line 50
    years_saved,                  \* lines 104-105
    pc                            \* position in the script

inputs == <<loan_amount, annual_interest_rate, period_months,
            yearly_extra_payment_percent>>
engine == <<monthly_rate, monthly_payment, extra_payment_amount, balance,
            schedule_data, total_interest, months_count, month, years_saved>>
vars == <<inputs, typed, engine, pc>>

-----------------------------------------------------------------------------
(* Bounds and program constants *)

MantBits == 11

SafetyCap == 1200

LoanAmountMin == 1000

LoanAmountDefault == 10000

PeriodMin == 1

PeriodDefault == 60

ExtraPercentMax == 100

-----------------------------------------------------------------------------
(* Floating-point arithmetic *)

RECURSIVE Pow2(_)
Pow2(k) == IF k <= 0 THEN 1 ELSE 2 * Pow2(k - 1)

RECURSIVE BitLen(_)
BitLen(n) == IF n = 0 THEN 0 ELSE 1 + BitLen(n \div 2)

Abs(n) == IF n < 0 THEN 0 - n ELSE n

Zero == [m |-> 0, e |-> 0]

\* The float nearest to N * 2^e, ties to even.
RoundF(N, e) ==
    IF N = 0 THEN Zero
    ELSE LET s == IF N < 0 THEN 0 - 1 ELSE 1
             a == Abs(N)
             k == BitLen(a)
         IN  IF k <= MantBits
             THEN [m |-> s * a * Pow2(MantBits - k), e |-> e - (MantBits - k)]
             ELSE LET sh == k - MantBits
                      q  == a \div Pow2(sh)
                      r  == a % Pow2(sh)
                      h  == Pow2(sh - 1)
                      up == r > h \/ (r = h /\ q % 2 = 1)
                      q1 == IF up THEN q + 1 ELSE q
                  IN  IF q1 = Pow2(MantBits)
                      THEN [m |-> s * Pow2(MantBits - 1), e |-> e + sh + 1]
                      ELSE [m |-> s * q1, e |-> e + sh]

FromInt(k) == RoundF(k, 0)

FNeg(a) == [m |-> 0 - a.m, e |-> a.e]

FMul(a, b) == RoundF(a.m * b.m, a.e + b.e)

\* b is not Zero.  The quotient keeps MantBits + 2 bits and a sticky bit.
FDiv(a, b) ==
    IF a.m = 0 THEN Zero
    ELSE LET s == IF (a.m < 0) = (b.m < 0) THEN 1 ELSE 0 - 1
             n == Abs(a.m) * Pow2(MantBits + 2)
             d == Abs(b.m)
             q == n \div d
             r == n % d
         IN  RoundF(s * (2 * q + (IF r # 0 THEN 1 ELSE 0)),
                    a.e - b.e - (MantBits + 2) - 1)

\* An operand more than MantBits + 1 binary places below the other is less
\* than half a unit in the last place of the result and is absorbed.
FAdd(a, b) ==
    IF a.m = 0 THEN b
    ELSE IF b.m = 0 THEN a
    ELSE LET hi == IF a.e >= b.e THEN a ELSE b
             lo == IF a.e >= b.e THEN b ELSE a
             d  == hi.e - lo.e
         IN  IF d >= MantBits + 2 THEN hi
             ELSE RoundF(hi.m * Pow2(d) + lo.m, lo.e)

FSub(a, b) == FAdd(a, FNeg(b))

\* A nonzero difference never rounds to zero, so its sign is the comparison.
FLt(a, b) == FSub(a, b).m < 0

FLe(a, b) == FSub(a, b).m <= 0

FGt(a, b) == FLt(b, a)

One == FromInt(1)

\* x ** n for an int n, by repeated squaring, each product rounded.  (The C
\* library's pow is accurate to within one unit in the last place; the
\* product chain errs by a few.)
RECURSIVE FPow(_, _)
FPow(x, n) ==
    IF n = 0 THEN One
    ELSE IF n < 0 THEN FDiv(One, FPow(x, 0 - n))
    ELSE IF n % 2 = 1 THEN FMul(FPow(x, n - 1), x)
    ELSE LET h == FPow(x, n \div 2) IN FMul(h, h)

\* The float a widget holds for the decimal number q[1] / q[2].
Ratio(q) == FDiv(FromInt(q[1]), FromInt(q[2]))

-----------------------------------------------------------------------------
(* The calculation, lines 31-105 *)

\* Line 33.
MonthlyRate(air) == FDiv(FDiv(air, FromInt(100)), FromInt(12))

\* (1 + monthly_rate) ** period_months, line 37.
Growth(r, n) == FPow(FAdd(One, r), n)

\* Lines 37 and 39 divide: a zero divisor raises ZeroDivisionError.
PaymentRaises(r, n) ==
    IF FGt(r, Zero) THEN FSub(Growth(r, n), One) = Zero ELSE n = 0

\* Lines 36-39, the level payment.
MonthlyPayment(loan, r, n) ==
    IF FGt(r, Zero)
    THEN FDiv(FMul(loan, FMul(r, Growth(r, n))), FSub(Growth(r, n), One))
    ELSE FDiv(loan, FromInt(n))

\* Line 41.
ExtraPaymentAmount(loan, pct) == FMul(loan, FDiv(pct, FromInt(100)))

\* A range that ends two values later.
RangeStop_Late(n) == n + SafetyCap + 2

\* Line 50: range(1, period_months + 1200) ends before this value.
RangeStop(n) == n + SafetyCap

\* Line 54.
Interest(bal, r) == FMul(bal, r)

\* Line 61, the test for the final payment.
IsFinalPayment(bal, pay, int) == FLt(bal, FSub(pay, int))

\* Lines 58-62.
PrincipalPayment(bal, pay, int) ==
    IF IsFinalPayment(bal, pay, int) THEN bal ELSE FSub(pay, int)

\* The payment variable is left alone in the final month.
AdjustedPayment_Kept(bal, pay, int) == pay

\* Line 63: the payment variable is overwritten in the final month.
AdjustedPayment(bal, pay, int) ==
    IF IsFinalPayment(bal, pay, int) THEN FAdd(int, bal) ELSE pay

\* The extra payment is reported in every month, not only each twelfth.
ActualExtraPayment_Monthly(mon, extra, bal) ==
    IF FGt(extra, Zero) /\ FGt(bal, Zero)
    THEN IF FLt(bal, extra) THEN bal ELSE extra
    ELSE Zero

\* Lines 69-76, applied to the balance left by line 65.
ActualExtraPayment(mon, extra, bal) ==
    IF mon % 12 = 0 /\ FGt(extra, Zero) /\ FGt(bal, Zero)
    THEN IF FLt(bal, extra) THEN bal ELSE extra
    ELSE Zero

\* Lines 70-76: the balance after the extra payment.
BalanceAfterExtra(mon, extra, bal) ==
    IF mon % 12 = 0 /\ FGt(extra, Zero) /\ FGt(bal, Zero)
    THEN IF FLt(bal, extra) THEN Zero ELSE FSub(bal, extra)
    ELSE bal

\* Line 88.
LoopBreaks(bal) == FLe(bal, Zero)

\* The years saved without line 105.
YearsSaved_Unclamped(n, count) ==
    FSub(FDiv(FromInt(n), FromInt(12)), FDiv(FromInt(count), FromInt(12)))

\* Lines 102-105.
YearsSaved(n, count) ==
    LET original_years == FDiv(FromInt(n), FromInt(12))
        actual_years   == FDiv(FromInt(count), FromInt(12))
        saved          == FSub(original_years, actual_years)
    IN  IF FLt(saved, Zero) THEN Zero ELSE saved

EngineReset ==
    /\ monthly_rate = Zero
    /\ monthly_payment = Zero
    /\ extra_payment_amount = Zero
    /\ balance = Zero
    /\ schedule_data = <<>>
    /\ total_interest = Zero
    /\ months_count = 0
    /\ month = 0
    /\ years_saved = Zero

\* Lines 31-47: the button is clicked and the script runs up to the loop.
Calculate ==
    /\ pc = "idle"
    /\ monthly_rate' = MonthlyRate(annual_interest_rate)
    /\ IF PaymentRaises(monthly_rate', period_months)
       THEN /\ pc' = "error"
            /\ UNCHANGED <<monthly_payment, extra_payment_amount, balance>>
       ELSE /\ pc' = "loop"
            /\ monthly_payment' =
                   MonthlyPayment(loan_amount, monthly_rate', period_months)
            /\ extra_payment_amount' =
                   ExtraPaymentAmount(loan_amount, yearly_extra_payment_percent)
            /\ balance' = loan_amount
    /\ schedule_data' = <<>>
    /\ total_interest' = Zero
    /\ months_count' = 0
    /\ UNCHANGED <<inputs, typed, month, years_saved>>

\* Lines 50-89: one pass through the loop body.
LoopIteration ==
    /\ pc = "loop"
    /\ month + 1 < RangeStop(period_months)
    /\ LET mon       == month + 1
           interest  == Interest(balance, monthly_rate)
           principal == PrincipalPayment(balance, monthly_payment, interest)
           payment   == AdjustedPayment(balance, monthly_payment, interest)
           bal1      == FSub(balance, principal)
           extra     == ActualExtraPayment(mon, extra_payment_amount, bal1)
           bal2      == BalanceAfterExtra(mon, extra_payment_amount, bal1)
       IN  /\ month' = mon
           /\ months_count' = months_count + 1
           /\ total_interest' = FAdd(total_interest, interest)
           /\ monthly_payment' = payment
           /\ balance' = bal2
           /\ schedule_data' = Append(schedule_data,
                  [Month                |-> mon,
                   Monthly_Payment      |-> payment,
                   Principal            |-> principal,
                   Interest             |-> interest,
                   Yearly_Extra_Payment |-> extra,
                   Remaining_Balance    |-> bal2])
           /\ pc' = IF LoopBreaks(bal2) THEN "summary" ELSE "loop"
    /\ UNCHANGED <<inputs, typed, monthly_rate, extra_payment_amount, years_saved>>

\* Line 50: the range is exhausted before the balance is cleared.
LoopExhausted ==
    /\ pc = "loop"
    /\ ~(month + 1 < RangeStop(period_months))
    /\ pc' = "summary"
    /\ UNCHANGED <<inputs, typed, engine>>

\* Lines 101-118: the summary metrics.
Summary ==
    /\ pc = "summary"
    /\ years_saved' = YearsSaved(period_months, months_count)
    /\ pc' = "done"
    /\ UNCHANGED <<inputs, typed, monthly_rate, monthly_payment,
                   extra_payment_amount, balance, schedule_data,
                   total_interest, months_count, month>>

-----------------------------------------------------------------------------
(* The calculation as a function of its four inputs *)

LoanAmounts == {1000, 1500}

\* Percentages as decimal fractions <<numerator, denominator>>.
Rates == {<<0, 1>>, <<1, 10>>, <<5, 1>>, <<12, 1>>}

Periods == {1, 2, 3, 12, 13}

ExtraPercents == {<<0, 1>>, <<10, 1>>, <<100, 1>>}

\* Rates at which the level payment barely exceeds the first interest.
SteepInputs ==
    { <<1000, <<1200, 1>>, 12, <<0, 1>> >>,
      <<1000, <<1200, 1>>, 13, <<10, 1>> >>,
      <<1500, <<1300, 1>>, 12, <<0, 1>> >>,
      <<10000, <<5, 1>>, 60, <<10, 1>> >>,
      <<1000, <<12, 1>>, 30, <<10, 1>> >> }

Inputs == (LoanAmounts \X Rates \X Periods \X ExtraPercents) \cup SteepInputs

NoTyping == [widget |-> "none", value |-> Zero]

Init ==
    /\ \E inp \in Inputs :
          /\ loan_amount = FromInt(inp[1])
          /\ annual_interest_rate = Ratio(inp[2])
          /\ period_months = inp[3]
          /\ yearly_extra_payment_percent = Ratio(inp[4])
    /\ typed = NoTyping
    /\ EngineReset
    /\ pc = "idle"

Next ==
    \/ Calculate
    \/ LoopIteration
    \/ LoopExhausted
    \/ Summary

Spec == Init /\ [][Next]_vars

-----------------------------------------------------------------------------
(* The sidebar widgets, lines 14-28, in front of the calculation *)

\* A widget without min_value takes over whatever is typed.
LoanAmountInput_Unbounded(old, v) == {v}

\* st.number_input hands the script a value inside [min_value, max_value]:
\* a typed value outside is not taken over (the widget keeps its value) or
\* is clamped to the bound, depending on how it was entered.
LoanAmountInput(old, v) ==
    IF FLe(FromInt(LoanAmountMin), v) THEN {v} ELSE {old, FromInt(LoanAmountMin)}

RateMin == Ratio(<<1, 10>>)

RateDefault == FromInt(5)

InterestRateInput(old, v) ==
    IF FLe(RateMin, v) THEN {v} ELSE {old, RateMin}

PeriodInput(old, v) ==
    IF PeriodMin <= v THEN {v} ELSE {old, PeriodMin}

ExtraPercentInput(old, v) ==
    IF FLt(v, Zero) THEN {old, Zero}
    ELSE IF FGt(v, FromInt(ExtraPercentMax)) THEN {old, FromInt(ExtraPercentMax)}
    ELSE {v}

TypedLoanAmounts == {0 - 1000, 0, 2000}

TypedRates == {<<0 - 1, 1>>, <<12, 1>>, <<1200, 1>>}

TypedPeriods == {0 - 1, 0, 2}

TypedExtraPercents == {<<0 - 10, 1>>, <<10, 1>>, <<150, 1>>}

\* Line 14.
TypeLoanAmount ==
    /\ pc = "idle"
    /\ \E k \in TypedLoanAmounts :
          /\ typed' = [widget |-> "loan_amount", value |-> FromInt(k)]
          /\ loan_amount' \in LoanAmountInput(loan_amount, FromInt(k))
    /\ UNCHANGED <<annual_interest_rate, period_months,
                   yearly_extra_payment_percent, engine, pc>>

\* Line 15.
TypeInterestRate ==
    /\ pc = "idle"
    /\ \E q \in TypedRates :
          /\ typed' = [widget |-> "annual_interest_rate", value |-> Ratio(q)]
          /\ annual_interest_rate' \in
                 InterestRateInput(annual_interest_rate, Ratio(q))
    /\ UNCHANGED <<loan_amount, period_months, yearly_extra_payment_percent,
                   engine, pc>>

\* Line 16.
TypePeriod ==
    /\ pc = "idle"
    /\ \E k \in TypedPeriods :
          /\ typed' = [widget |-> "period_months", value |-> k]
          /\ period_months' \in PeriodInput(period_months, k)
    /\ UNCHANGED <<loan_amount, annual_interest_rate,
                   yearly_extra_payment_percent, engine, pc>>

\* Lines 19-26.
TypeExtraPercent ==
    /\ pc = "idle"
    /\ \E q \in TypedExtraPercents :
          /\ typed' = [widget |-> "yearly_extra_payment_percent",
                       value |-> Ratio(q)]
          /\ yearly_extra_payment_percent' \in
                 ExtraPercentInput(yearly_extra_payment_percent, Ratio(q))
    /\ UNCHANGED <<loan_amount, annual_interest_rate, period_months,
                   engine, pc>>

\* Any later interaction reruns the script with calculate_btn False: the
\* results are gone and line 147 shows the hint.
Rerun ==
    /\ pc \in {"done", "error"}
    /\ pc' = "idle"
    /\ monthly_rate' = Zero
    /\ monthly_payment' = Zero
    /\ extra_payment_amount' = Zero
    /\ balance' = Zero
    /\ schedule_data' = <<>>
    /\ total_interest' = Zero
    /\ months_count' = 0
    /\ month' = 0
    /\ years_saved' = Zero
    /\ UNCHANGED <<inputs, typed>>

InitUI ==
    /\ loan_amount = FromInt(LoanAmountDefault)
    /\ annual_interest_rate = RateDefault
    /\ period_months = PeriodDefault
    /\ yearly_extra_payment_percent = Zero
    /\ typed = NoTyping
    /\ EngineReset
    /\ pc = "idle"

NextUI ==
    \/ TypeLoanAmount
    \/ TypeInterestRate
    \/ TypePeriod
    \/ TypeExtraPercent
    \/ Calculate
    \/ LoopIteration
    \/ LoopExhausted
    \/ Summary
    \/ Rerun

SpecUI == InitUI /\ [][NextUI]_vars

-----------------------------------------------------------------------------
(* Properties *)

NRows == Len(schedule_data)

Finished == pc = "done"

\* The preconditions of the calculation.
Preconditions ==
    /\ FGt(loan_amount, Zero)
    /\ FLe(Zero, annual_interest_rate)
    /\ period_months >= 1
    /\ FLe(Zero, yearly_extra_payment_percent)
    /\ FLe(yearly_extra_payment_percent, FromInt(100))

\* The balance a month starts with, and the balance its regular payment leaves.
BalanceBefore(i) ==
    IF i = 1 THEN loan_amount ELSE schedule_data[i - 1].Remaining_Balance

BalanceAfterRegular(i) == FSub(BalanceBefore(i), schedule_data[i].Principal)

\* The nominal level payment and the yearly extra amount of the inputs.
LevelPayment ==
    MonthlyPayment(loan_amount, MonthlyRate(annual_interest_rate), period_months)

ExtraAmount == ExtraPaymentAmount(loan_amount, yearly_extra_payment_percent)

FMin(a, b) == IF FLt(b, a) THEN b ELSE a

FMax(a, b) == IF FLt(a, b) THEN b ELSE a

\* A record whose starting balance is below (level payment - interest).
Clamped(i) ==
    FLt(BalanceBefore(i), FSub(LevelPayment, schedule_data[i].Interest))

\* C1: for every valid input the last emitted record has remainingBalance
\* exactly 0, and no record before the last one has remainingBalance 0.
C1_LastBalanceIsZero ==
    (Finished /\ Preconditions) =>
        /\ NRows >= 1
        /\ schedule_data[NRows].Remaining_Balance = Zero
        /\ \A i \in 1..(NRows - 1) : schedule_data[i].Remaining_Balance # Zero

\* C2: for every valid input the remainingBalance values never increase from
\* one record to the next, none is negative, and the first is at most the
\* principal.
C2_BalanceNonIncreasing ==
    Preconditions =>
        \A i \in 1..NRows :
            /\ FLe(Zero, schedule_data[i].Remaining_Balance)
            /\ FLe(schedule_data[i].Remaining_Balance, BalanceBefore(i))

\* C3: with yearlyExtraPercent = 0 the number of emitted records equals
\* termMonths exactly and every record has extraPayment = 0.
C3_NoExtraMeansFullTerm ==
    (Finished /\ Preconditions /\ yearly_extra_payment_percent = Zero) =>
        /\ NRows = period_months
        /\ \A i \in 1..NRows : schedule_data[i].Yearly_Extra_Payment = Zero

\* C4: extraPayment is 0 unless month % 12 = 0, extraAmount > 0 and the
\* balance left by the regular payment is > 0; then it is the smaller of
\* extraAmount and that balance.  extraAmount is the product of the original
\* principal and the percentage, and stays what it was set to.
C4_ExtraPaymentRule ==
    /\ pc \in {"loop", "summary", "done"} => extra_payment_amount = ExtraAmount
    /\ Finished =>
         \A i \in 1..NRows :
            LET row     == schedule_data[i]
                left    == BalanceAfterRegular(i)
                trigger == /\ row.Month % 12 = 0
                           /\ FGt(ExtraAmount, Zero)
                           /\ FGt(left, Zero)
            IN  row.Yearly_Extra_Payment =
                    IF trigger THEN FMin(ExtraAmount, left) ELSE Zero

\* A finished schedule with a full extra payment in a twelfth month and a
\* month without one.
C4_Witness ==
    /\ Finished
    /\ \E i \in 1..NRows :
          /\ schedule_data[i].Month % 12 = 0
          /\ schedule_data[i].Yearly_Extra_Payment = ExtraAmount
          /\ FLt(ExtraAmount, BalanceAfterRegular(i))
          /\ FGt(ExtraAmount, Zero)
    /\ \E i \in 1..NRows :
          /\ schedule_data[i].Month % 12 = 0
          /\ FGt(schedule_data[i].Yearly_Extra_Payment, Zero)
          /\ FLt(schedule_data[i].Yearly_Extra_Payment, ExtraAmount)

\* What C5 says of the clamp: a clamped record pays off its starting balance,
\* charges interest + principal and is the last one; every other record
\* charges the level payment.
ClampRule(i) ==
    LET row == schedule_data[i]
    IN  IF Clamped(i)
        THEN /\ row.Principal = BalanceBefore(i)
             /\ row.Monthly_Payment = FAdd(row.Interest, row.Principal)
             /\ i = NRows
             /\ pc # "loop"
        ELSE row.Monthly_Payment = LevelPayment

\* C5: in every record principalPortion + interestPortion = scheduledPayment;
\* scheduledPayment is the level payment except in a clamped record, which
\* can only be the final record.
C5_PortionsAddUp ==
    \A i \in 1..NRows :
        /\ FAdd(schedule_data[i].Principal, schedule_data[i].Interest)
               = schedule_data[i].Monthly_Payment
        /\ ClampRule(i)

\* C5, amended: in every unclamped record principalPortion is the rounded
\* difference scheduledPayment - interestPortion; the clamp is as claimed.
C5_PrincipalIsPaymentLessInterest ==
    Finished =>
        \A i \in 1..NRows :
            /\ Clamped(i) \/
                 schedule_data[i].Principal =
                     FSub(schedule_data[i].Monthly_Payment, schedule_data[i].Interest)
            /\ ClampRule(i)

\* A finished schedule of several records that ends with a clamped record
\* charging less than the level payment.
C5_Witness ==
    /\ Finished
    /\ NRows >= 2
    /\ Clamped(NRows)
    /\ FLt(schedule_data[NRows].Monthly_Payment, LevelPayment)
    /\ ~Clamped(1)

\* What C6 says of a finished run.
SummaryOfRecords ==
    /\ months_count = NRows
    /\ \A i \in 1..NRows : schedule_data[i].Month = i
    /\ NRows >= 1 => schedule_data[NRows].Month = months_count
    /\ years_saved =
           FMax(Zero, FSub(FDiv(FromInt(period_months), FromInt(12)),
                           FDiv(FromInt(months_count), FromInt(12))))
    /\ FLe(Zero, years_saved)

\* total_interest is the sum of the interest portions in record order: it is
\* zero while there is no record, and every record emitted adds its interest.
InterestAdded ==
    IF schedule_data' = <<>> THEN total_interest' = Zero
    ELSE /\ Len(schedule_data') = NRows + 1
         /\ total_interest' =
                FAdd(total_interest, schedule_data'[NRows + 1].Interest)

\* C6: the summary agrees with the records: totalInterest is the sum of the
\* interest portions, monthsToRepay the number of records, the months run
\* 1, 2, ..., n, and yearsSaved = max(0, termMonths/12 - monthsToRepay/12).
C6_SummaryMatchesRecords ==
    /\ [](schedule_data = <<>> => total_interest = Zero)
    /\ [][schedule_data' # schedule_data => InterestAdded]_vars
    /\ [][schedule_data' = schedule_data => total_interest' = total_interest]_vars
    /\ [](Finished => SummaryOfRecords)

\* A finished schedule that took longer than the term, so that the
\* difference of the years is negative and yearsSaved is floored at 0.
C6_Witness ==
    /\ Finished
    /\ NRows > period_months
    /\ FGt(total_interest, Zero)
    /\ years_saved = Zero

\* How far the script has come: every step takes it further, and there is no
\* further than the end of the range plus the summary.
Progress ==
    CASE pc = "idle"    -> 0
      [] pc = "loop"    -> 1 + month
      [] pc = "summary" -> 1 + RangeStop(period_months)
      [] OTHER          -> 2 + RangeStop(period_months)

\* C7: the loop ends for every input, also when the payment does not cover
\* the interest, and never emits more than termMonths + 1200 records: every
\* step of the script is progress, progress is bounded, and the script is
\* always at a position whose step can be taken or at its end.
C7_LoopTerminates ==
    /\ [](NRows <= period_months + SafetyCap)
    /\ [](pc \in {"idle", "loop", "summary", "done", "error"})
    /\ [](pc = "loop" => month = NRows /\ month < RangeStop(period_months))
    /\ [][Progress' > Progress]_vars
    /\ [](Progress <= 2 + period_months + SafetyCap)

\* The range ran out with the payment not covering the month's interest.
C7_Witness ==
    /\ Finished
    /\ FGt(balance, Zero)
    /\ NRows = period_months + SafetyCap - 1
    /\ FLe(monthly_payment, Interest(balance, monthly_rate))

\* C8: for every valid input monthsToRepay <= termMonths, and principal
\* 10000 at 5 % over 60 months with 10 % extra is repaid in fewer than 60
\* months with yearsSaved > 0.
C8_NeverLongerThanTerm ==
    (Finished /\ Preconditions) =>
        /\ months_count <= period_months
        /\ (/\ loan_amount = FromInt(10000)
            /\ annual_interest_rate = FromInt(5)
            /\ period_months = 60
            /\ yearly_extra_payment_percent = FromInt(10))
           => (months_count < 60 /\ FGt(years_saved, Zero))

TypedViolation ==
    \/ typed.widget = "loan_amount" /\ FLe(typed.value, Zero)
    \/ typed.widget = "annual_interest_rate" /\ FLt(typed.value, Zero)
    \/ typed.widget = "period_months" /\ typed.value < 1
    \/ /\ typed.widget = "yearly_extra_payment_percent"
       /\ (FLt(typed.value, Zero) \/ FGt(typed.value, FromInt(100)))

====
